---- MODULE Spec2Model ----
(***************************************************************************)
(* Model of saleor/product/views.py: the three storefront view handlers    *)
(* product_details, product_add_to_cart and category_index.  Each handler  *)
(* is one atomic action that consumes a request and leaves the response,   *)
(* the trace of helper calls it made and the resulting cart table in the   *)
(* state.  The catalogue (products, categories) is fixed after Init.       *)
(***************************************************************************)
EXTENDS Integers, Sequences, FiniteSets

\* ---------------------------------------------------------------- bounds
MaxProductId  == 1      \* product ids that may appear in a URL: 1..MaxProductId
MaxCategoryId == 1      \* category ids that may appear in a URL
MaxQuantity   == 1      \* largest quantity a cart form may carry
MaxLine       == 1      \* cap on the quantity stored in one cart line

ProductIds  == 1..MaxProductId
CategoryIds == 1..MaxCategoryId
\* ids a URL may carry: the tables' ids and 0, which never names a row
UrlProductIds  == 0..MaxProductId
UrlCategoryIds == 0..MaxCategoryId
\* every product's slug is CurrentSlug and every category's full path is
\* CurrentPath; a URL carries either the current value or a stale one
CurrentSlug == "new-name"
CurrentPath == "apparel/shoes"
Slugs       == {"old-name", CurrentSlug}
Paths       == {"shoes", CurrentPath}
Users       == {"anonymous", "staff"}
Methods     == {"GET", "POST"}

VARIABLES
    products,     \* product table: id -> [exists, slug, published]; no row 0
    categories,   \* category table: id -> [exists, path]; no row 0
    carts,        \* cart table: owner -> [exists, lines]
    request,      \* the request handled last
    response,     \* the response (or Http404) it produced
    calls         \* helper calls made while handling it, in order

vars == <<products, categories, carts, request, response, calls>>

\* ------------------------------------------------------- catalogue rows
NoProduct  == [exists |-> FALSE, slug |-> "", published |-> FALSE]
NoCategory == [exists |-> FALSE, path |-> ""]
ProductRows  == [exists : {TRUE}, slug : {CurrentSlug}, published : BOOLEAN]
CategoryRows == [exists : {TRUE}, path : {CurrentPath}]

NoCart    == [exists |-> FALSE, lines |-> [p \in ProductIds |-> 0]]
EmptyCart == [exists |-> TRUE,  lines |-> [p \in ProductIds |-> 0]]

\* request.user.is_authenticated
is_authenticated(user) == user # "anonymous"

\* ------------------------------------------------------------ URLs
Url(name, path, id) == [name |-> name, path |-> path, id |-> id]
NoUrl == Url("", "", 0)

\* reverse('product:details', kwargs={'product_id': .., 'slug': ..})
reverse_product_details(slug, product_id) == Url("product:details", slug, product_id)
\* reverse('cart:index')
reverse_cart_index == Url("cart:index", "", 0)
\* reverse('product:category', path=.., category_id=..)
reverse_product_category(path, category_id) == Url("product:category", path, category_id)

\* Product.get_slug() / Product.get_absolute_url() / Category.get_full_path()
get_slug(prods, product_id) == prods[product_id].slug
get_absolute_url(prods, product_id) ==
    reverse_product_details(get_slug(prods, product_id), product_id)
get_full_path(cats, category_id) == cats[category_id].path

\* ------------------------------------------------------------ querysets
\* products visible to the user: staff preview unpublished products
products_visible_to_user(prods, user) ==
    {p \in UrlProductIds : prods[p].exists /\ (prods[p].published \/ user = "staff")}
products_with_details(prods, user) == products_visible_to_user(prods, user)
products_for_cart(prods, user)     == products_visible_to_user(prods, user)
Category_objects(cats) == {c \in UrlCategoryIds : cats[c].exists}

\* get_object_or_404(queryset, id=..): TRUE when an object is found,
\* FALSE when Http404 is raised
get_object_or_404_Any(queryset, id) == TRUE
get_object_or_404(queryset, id) == id \in queryset

\* ------------------------------------------------------------ call trace
Call(fn, by, create_cart) == [fn |-> fn, by |-> by, create_cart |-> create_cart]
Made(fn, by) == <<Call(fn, by, FALSE)>>

\* ------------------------------------------------------------ responses
NoResponse ==
    [kind |-> "none", status |-> 0, location |-> NoUrl, template |-> "",
     form |-> <<>>, json_key |-> "", json_next |-> NoUrl, json_error |-> {},
     cookie |-> <<>>]
Http404 == [NoResponse EXCEPT !.kind = "Http404", !.status = 404]
HttpResponseRedirect(url) ==
    [NoResponse EXCEPT !.kind = "HttpResponseRedirect", !.status = 302,
                       !.location = url]
HttpResponsePermanentRedirect(url) ==
    [NoResponse EXCEPT !.kind = "HttpResponsePermanentRedirect",
                       !.status = 301, !.location = url]
TemplateResponse(template, form) ==
    [NoResponse EXCEPT !.kind = "TemplateResponse", !.status = 200,
                       !.template = template, !.form = form]
JsonNext(url, status) ==
    [NoResponse EXCEPT !.kind = "JsonResponse", !.status = status,
                       !.json_key = "next", !.json_next = url]
JsonError(errors, status) ==
    [NoResponse EXCEPT !.kind = "JsonResponse", !.status = status,
                       !.json_key = "error", !.json_error = errors]

\* set_cart_cookie(cart, response): the cookie names the cart
set_cart_cookie(cart, resp) == [resp EXCEPT !.cookie = <<cart>>]

\* ------------------------------------------------------------ cart form
\* handle_cart_form(request, product, create_cart): the cart of the
\* requesting user or session (created when create_cart is set and there is
\* none) and a form bound to it, to the product and to the submitted data
handle_cart_form(crts, req, product_id, create_cart) ==
    [form  |-> [product |-> product_id, cart |-> req.user,
                quantity |-> req.quantity],
     cart  |-> req.user,
     carts |-> IF create_cart /\ ~crts[req.user].exists
               THEN [crts EXCEPT ![req.user] = EmptyCart]
               ELSE crts]

\* form.is_valid() and form.errors: a quantity of at least one is required
form_is_valid(form) == form.quantity >= 1
form_errors(form) == IF form_is_valid(form) THEN {} ELSE {"quantity"}
\* form.save(): add the quantity to the cart line of the product
form_save(crts, form) ==
    [crts EXCEPT ![form.cart].lines[form.product] = @ + form.quantity]

\* ------------------------------------------------------ product_details
\* line 53: product.get_slug() != slug
slug_differs_Never(prods, product_id, slug) == FALSE
slug_differs(prods, product_id, slug) == get_slug(prods, product_id) # slug

\* line 58: form is None  (an absent form is the empty sequence)
form_is_None_Always(form) == TRUE
form_is_None(form) == form = <<>>

\* line 59: the create_cart argument product_details passes
details_create_cart_True == TRUE
details_create_cart == FALSE

product_details(prods, crts, req, slug, product_id, form) ==
    LET by == "product_details"
        c1 == Made("products_with_details", by) \o Made("get_object_or_404", by)
    IN  IF ~get_object_or_404(products_with_details(prods, req.user), product_id)
        THEN [response |-> Http404, calls |-> c1 \o Made("Http404", by),
              carts |-> crts]
        ELSE IF slug_differs(prods, product_id, slug)
        THEN [response |-> HttpResponsePermanentRedirect(
                               get_absolute_url(prods, product_id)),
              calls |-> c1 \o Made("get_slug", by)
                           \o Made("HttpResponsePermanentRedirect", by),
              carts |-> crts]
        ELSE LET built == handle_cart_form(crts, req, product_id,
                                           details_create_cart)
                 none  == form_is_None(form)
             IN  [response |-> TemplateResponse("product/details.html",
                                   IF none THEN <<built.form>> ELSE form),
                  calls |-> c1 \o Made("get_slug", by)
                               \o (IF none
                                   THEN <<Call("handle_cart_form", by,
                                               details_create_cart)>>
                                   ELSE <<>>)
                               \o Made("TemplateResponse", by),
                  carts |-> IF none THEN built.carts ELSE crts]

\* -------------------------------------------------- product_add_to_cart
\* line 86: request.method == 'POST'
method_is_post_Always(method) == TRUE
method_is_post(method) == method = "POST"

\* line 94: the branch on form.is_valid()
takes_valid_branch_Always(form) == TRUE
takes_valid_branch(form) == form_is_valid(form)

\* line 97: the JSON answer to a valid AJAX submission
valid_ajax_response_Redirect == HttpResponseRedirect(reverse_cart_index)
valid_ajax_response == JsonNext(reverse_cart_index, 200)

\* line 102: the JSON answer to an invalid AJAX submission
invalid_ajax_response_Ok(form) == JsonError(form_errors(form), 200)
invalid_ajax_response(form) == JsonError(form_errors(form), 400)

\* line 105: not request.user.is_authenticated
needs_cart_cookie_Always(user) == TRUE
needs_cart_cookie(user) == ~is_authenticated(user)

product_add_to_cart(prods, crts, req, slug, product_id) ==
    LET by == "product_add_to_cart" IN
    IF ~method_is_post(req.method)
    THEN [response |-> HttpResponseRedirect(
                           reverse_product_details(slug, product_id)),
          calls |-> Made("redirect", by), carts |-> crts]
    ELSE
    LET c1 == Made("products_for_cart", by) \o Made("get_object_or_404", by)
    IN  IF ~get_object_or_404(products_for_cart(prods, req.user), product_id)
        THEN [response |-> Http404, calls |-> c1 \o Made("Http404", by),
              carts |-> crts]
        ELSE
        LET built == handle_cart_form(crts, req, product_id, TRUE)
            form  == built.form
            c2    == c1 \o <<Call("handle_cart_form", by, TRUE)>>
                        \o Made("is_valid", by)
            valid == takes_valid_branch(form)
            \* lines 94-104: the response, its calls and the cart table
            inner ==
                IF valid
                THEN [response |-> IF req.is_ajax
                                   THEN valid_ajax_response
                                   ELSE HttpResponseRedirect(reverse_cart_index),
                      calls |-> c2 \o Made("save", by)
                                   \o (IF req.is_ajax
                                       THEN Made("JsonResponse", by)
                                       ELSE Made("redirect", by)),
                      carts |-> form_save(built.carts, form)]
                ELSE IF req.is_ajax
                THEN [response |-> invalid_ajax_response(form),
                      calls |-> c2 \o Made("JsonResponse", by),
                      carts |-> built.carts]
                ELSE LET d == product_details(prods, built.carts, req, slug,
                                              product_id, <<form>>)
                     IN  [response |-> d.response, calls |-> c2 \o d.calls,
                          carts |-> d.carts]
        IN  IF inner.response.kind = "Http404"
            THEN inner     \* Http404 raised by product_details propagates
            ELSE IF needs_cart_cookie(req.user)
            THEN [response |-> set_cart_cookie(built.cart, inner.response),
                  calls |-> inner.calls \o Made("set_cart_cookie", by),
                  carts |-> inner.carts]
            ELSE inner

\* ------------------------------------------------------- category_index
\* line 113: actual_path != path
path_differs_Never(actual_path, path) == FALSE
path_differs(actual_path, path) == actual_path # path

category_index(prods, cats, crts, req, path, category_id) ==
    LET by == "category_index"
        c1 == Made("get_object_or_404", by)
    IN  IF ~get_object_or_404(Category_objects(cats), category_id)
        THEN [response |-> Http404, calls |-> c1 \o Made("Http404", by),
              carts |-> crts]
        ELSE IF path_differs(get_full_path(cats, category_id), path)
        THEN [response |-> HttpResponsePermanentRedirect(
                               reverse_product_category(
                                   get_full_path(cats, category_id),
                                   category_id)),
              calls |-> c1 \o Made("get_full_path", by)
                           \o Made("redirect", by),
              carts |-> crts]
        ELSE [response |-> TemplateResponse("category/index.html", <<>>),
              calls |-> c1 \o Made("get_full_path", by)
                           \o Made("products_with_details", by)
                           \o Made("ProductFilter", by)
                           \o Made("get_paginator_items", by)
                           \o Made("products_with_availability", by)
                           \o Made("TemplateResponse", by),
              carts |-> crts]

\* ------------------------------------------------------------ requests
Request(view, method, user, is_ajax, path, id, quantity) ==
    [view |-> view, method |-> method, user |-> user, is_ajax |-> is_ajax,
     path |-> path, id |-> id, quantity |-> quantity]
NoRequest == Request("none", "GET", "anonymous", FALSE, "", 0, 0)

Quantities     == 0..MaxQuantity

WithinBounds(crts) ==
    \A u \in Users : \A p \in ProductIds : crts[u].lines[p] <= MaxLine

Init ==
    /\ products \in [UrlProductIds -> ProductRows \cup {NoProduct}]
    /\ \A p \in UrlProductIds : products[p].exists <=> p \in ProductIds
    /\ categories \in [UrlCategoryIds -> CategoryRows \cup {NoCategory}]
    /\ \A c \in UrlCategoryIds : categories[c].exists <=> c \in CategoryIds
    /\ carts = [u \in Users |-> NoCart]
    /\ request = NoRequest
    /\ response = NoResponse
    /\ calls = <<>>

Handle(req, out) ==
    /\ WithinBounds(out.carts)
    /\ request' = req
    /\ response' = out.response
    /\ calls' = out.calls
    /\ carts' = out.carts
    /\ UNCHANGED <<products, categories>>

ProductDetails ==
    \E user \in Users, slug \in Slugs, id \in UrlProductIds :
        LET req == Request("product_details", "GET", user, FALSE, slug, id, 0)
        IN  Handle(req, product_details(products, carts, req, slug, id, <<>>))

ProductAddToCart ==
    \E method \in Methods, user \in Users, ajax \in BOOLEAN, slug \in Slugs,
       id \in UrlProductIds, quantity \in Quantities :
        LET req == Request("product_add_to_cart", method, user, ajax, slug,
                           id, quantity)
        IN  Handle(req, product_add_to_cart(products, carts, req, slug, id))

CategoryIndex ==
    \E user \in Users, path \in Paths, id \in UrlCategoryIds :
        LET req == Request("category_index", "GET", user, FALSE, path, id, 0)
        IN  Handle(req, category_index(products, categories, carts, req,
                                       path, id))

Next == ProductDetails \/ ProductAddToCart \/ CategoryIndex

Spec == Init /\ [][Next]_vars

\* ====================================================================
\* Properties
\* ====================================================================
IsDetails  == request.view = "product_details"
IsAddToCart == request.view = "product_add_to_cart"
IsCategory == request.view = "category_index"

\* the URL's product id names a product the requesting user may see
ProductResolves ==
    /\ request.id \in ProductIds
    /\ products[request.id].exists
    /\ (products[request.id].published \/ request.user = "staff")
\* the URL's category id names a category
CategoryResolves ==
    request.id \in CategoryIds /\ categories[request.id].exists

StaleSlug == products[request.id].slug # request.path
StalePath == categories[request.id].path # request.path
FormValid == request.quantity >= 1

\* positions in the call trace of the calls to fn
CallsTo(fn) == {i \in 1..Len(calls) : calls[i].fn = fn}
CallsToBy(fn, by) == {i \in CallsTo(fn) : calls[i].by = by}
NeverCalled(fns) == \A i \in 1..Len(calls) : calls[i].fn \notin fns

CanonicalProductUrl ==
    [name |-> "product:details", path |-> products[request.id].slug,
     id |-> request.id]
CartIndexUrl == [name |-> "cart:index", path |-> "", id |-> 0]
SubmittedForm ==
    [product |-> request.id, cart |-> request.user,
     quantity |-> request.quantity]

\* C1: product_details answers a visible product requested under a stale
\* slug with a 301 to the product's canonical URL, renders no template and
\* builds no cart form.
C1_StaleSlugGets301 ==
    (IsDetails /\ ProductResolves /\ StaleSlug) =>
        /\ response.kind = "HttpResponsePermanentRedirect"
        /\ response.status = 301
        /\ response.location = CanonicalProductUrl
        /\ response.template = ""
        /\ NeverCalled({"TemplateResponse", "handle_cart_form"})

C1_Witness ==
    /\ IsDetails /\ ProductResolves /\ StaleSlug
    /\ response.status = 301

\* C2 as stated: on every response branch of product_add_to_cart, the
\* wrong-method redirect included, the cart cookie is set if and only if
\* the user is not authenticated.
C2_CookieIffAnonymousOnEveryBranch ==
    (IsAddToCart /\ response.kind # "Http404") =>
        /\ (response.cookie # <<>>) <=> (request.user = "anonymous")
        /\ (CallsTo("set_cart_cookie") # {}) <=> (request.user = "anonymous")

\* C2 amended: on every response a POST to product_add_to_cart returns
\* (JSON 200, JSON 400, redirect to cart, the detail-page fallback) the
\* cart cookie is set, once, if and only if the user is not authenticated;
\* the wrong-method redirect never carries it.
C2_CookieIffAnonymousOnPost ==
    (IsAddToCart /\ response.kind # "Http404") =>
        IF request.method = "POST"
        THEN IF request.user = "anonymous"
             THEN /\ response.cookie = <<request.user>>
                  /\ Cardinality(CallsTo("set_cart_cookie")) = 1
             ELSE /\ response.cookie = <<>>
                  /\ CallsTo("set_cart_cookie") = {}
        ELSE /\ response.cookie = <<>>
             /\ CallsTo("set_cart_cookie") = {}

C2_Witness ==
    /\ IsAddToCart /\ request.method = "POST"
    /\ request.user = "anonymous"
    /\ response.kind = "TemplateResponse"
    /\ response.cookie = <<"anonymous">>

\* C3: a non-POST request to product_add_to_cart is answered with a
\* redirect to 'product:details' for the same product_id and slug, and
\* nothing else happens: no product lookup, no handle_cart_form, no
\* form.save, no set_cart_cookie, and the cart table is unchanged.
C3_WrongMethodAnswer ==
    (IsAddToCart /\ request.method # "POST") =>
        /\ response.kind = "HttpResponseRedirect"
        /\ response.location =
               [name |-> "product:details", path |-> request.path,
                id |-> request.id]
        /\ response.cookie = <<>>
        /\ NeverCalled({"products_for_cart", "get_object_or_404",
                        "handle_cart_form", "is_valid", "save",
                        "set_cart_cookie"})

C3_WrongMethodRedirectsWithoutEffect ==
    [][ (IsAddToCart /\ request.method # "POST")' =>
            (C3_WrongMethodAnswer' /\ carts' = carts) ]_vars

\* a GET for a product the user may not see, with a cart already in place
C3_Witness ==
    /\ IsAddToCart /\ request.method = "GET"
    /\ response.kind = "HttpResponseRedirect"
    /\ ~ProductResolves
    /\ carts[request.user].exists

\* C4: an AJAX POST for a resolving product with an invalid form is
\* answered with JSON {'error': form.errors} and status 400; form.save is
\* not called and no cart line changes.
C4_InvalidAjaxAnswer ==
    (IsAddToCart /\ request.method = "POST" /\ ProductResolves
       /\ ~FormValid /\ request.is_ajax) =>
        /\ response.kind = "JsonResponse"
        /\ response.json_key = "error"
        /\ response.json_error = {"quantity"}
        /\ response.status = 400
        /\ CallsTo("save") = {}

C4_InvalidAjaxIs400 ==
    [][ C4_InvalidAjaxAnswer' /\
        ((IsAddToCart /\ request.method = "POST" /\ ProductResolves
            /\ ~FormValid /\ request.is_ajax)' =>
          \A u \in Users : carts'[u].lines = carts[u].lines) ]_vars

C4_Witness ==
    /\ IsAddToCart /\ request.method = "POST" /\ ProductResolves
    /\ ~FormValid /\ request.is_ajax
    /\ response.status = 400

\* C5: an AJAX POST for a resolving product with a valid form is answered
\* with JSON {'next': <cart index URL>} and status 200, built after
\* form.save has added the quantity to the cart line.
C5_ValidAjaxAnswer ==
    (IsAddToCart /\ request.method = "POST" /\ ProductResolves
       /\ FormValid /\ request.is_ajax) =>
        /\ response.kind = "JsonResponse"
        /\ response.json_key = "next"
        /\ response.json_next = CartIndexUrl
        /\ response.status = 200
        /\ \E i \in CallsTo("save") : \E j \in CallsTo("JsonResponse") : i < j

C5_ValidAjaxIs200 ==
    [][ C5_ValidAjaxAnswer' /\
        ((IsAddToCart /\ request.method = "POST" /\ ProductResolves
            /\ FormValid /\ request.is_ajax)' =>
          /\ carts'[request'.user].exists
          /\ carts'[request'.user].lines[request'.id] =
                 carts[request'.user].lines[request'.id]
                     + request'.quantity) ]_vars

C5_Witness ==
    /\ IsAddToCart /\ request.method = "POST" /\ ProductResolves
    /\ FormValid /\ request.is_ajax
    /\ response.json_key = "next"
    /\ carts[request.user].lines[request.id] >= 1

\* C6 as stated: in each of the three handlers an identifier that matches
\* no visible product / no category yields a 404, never a 301.
C6_MissingIs404InEveryHandler ==
    /\ ((IsDetails \/ IsAddToCart) /\ ~ProductResolves) =>
           (response.kind = "Http404" /\ response.status = 404)
    /\ (IsCategory /\ ~CategoryResolves) =>
           (response.kind = "Http404" /\ response.status = 404)

\* C6 amended: product_details, category_index and a POST to
\* product_add_to_cart answer an identifier that matches no visible
\* product / no category with a 404, before any slug or path comparison;
\* a non-POST request to product_add_to_cart is redirected (302) to the
\* detail URL without a lookup; in no handler does such an identifier
\* produce a 301.
C6_MissingIs404 ==
    /\ ((IsDetails \/ (IsAddToCart /\ request.method = "POST"))
          /\ ~ProductResolves) =>
           /\ response.kind = "Http404" /\ response.status = 404
           /\ NeverCalled({"get_slug", "handle_cart_form"})
    /\ (IsAddToCart /\ request.method # "POST" /\ ~ProductResolves) =>
           /\ response.status = 302
           /\ CallsTo("get_object_or_404") = {}
    /\ (IsCategory /\ ~CategoryResolves) =>
           /\ response.kind = "Http404" /\ response.status = 404
           /\ NeverCalled({"get_full_path"})

\* an unpublished product requested by an anonymous user under a stale slug
C6_Witness ==
    /\ IsDetails /\ request.id \in ProductIds
    /\ products[request.id].exists /\ ~ProductResolves
    /\ StaleSlug
    /\ response.status = 404

\* C7: category_index answers an existing category requested under a path
\* other than its full path with a permanent redirect to 'product:category'
\* for the actual path and the same id, without querying, filtering,
\* paginating or rendering; when the path matches it renders the listing.
C7_StalePathGets301 ==
    (IsCategory /\ CategoryResolves) =>
        IF StalePath
        THEN /\ response.kind = "HttpResponsePermanentRedirect"
             /\ response.status = 301
             /\ response.location =
                    [name |-> "product:category",
                     path |-> categories[request.id].path,
                     id |-> request.id]
             /\ NeverCalled({"products_with_details", "ProductFilter",
                             "get_paginator_items",
                             "products_with_availability",
                             "TemplateResponse"})
        ELSE /\ response.kind = "TemplateResponse"
             /\ response.template = "category/index.html"

C7_Witness ==
    /\ IsCategory /\ CategoryResolves /\ StalePath
    /\ response.status = 301

\* C8: a non-AJAX POST for a resolving product with an invalid form is
\* answered with the re-rendered detail page carrying that same form,
\* whatever the URL slug.
C8_InvalidFormRerendersDetailPage ==
    (IsAddToCart /\ request.method = "POST" /\ ProductResolves
       /\ ~FormValid /\ ~request.is_ajax) =>
        /\ response.kind = "TemplateResponse"
        /\ response.template = "product/details.html"
        /\ response.form = <<SubmittedForm>>

\* C9: form.save is called once if and only if the method is POST, the
\* product resolves and the form is valid, and not at all otherwise; then
\* a non-AJAX request is redirected to 'cart:index' and an AJAX one gets
\* JSON, and the slug is never compared to the product's.
C9_SaveOnceIffValidPost ==
    IsAddToCart =>
        IF request.method = "POST" /\ ProductResolves /\ FormValid
        THEN /\ Cardinality(CallsTo("save")) = 1
             /\ IF request.is_ajax
                THEN response.kind = "JsonResponse"
                ELSE /\ response.kind = "HttpResponseRedirect"
                     /\ response.location = CartIndexUrl
             /\ CallsTo("get_slug") = {}
        ELSE CallsTo("save") = {}

C9_Witness ==
    /\ IsAddToCart /\ request.method = "POST" /\ ProductResolves
    /\ FormValid /\ ~request.is_ajax /\ StaleSlug
    /\ response.location = CartIndexUrl
    /\ Cardinality(CallsTo("save")) = 1

\* C10: only a POST to product_add_to_cart asks for a cart to be created:
\* product_details calls handle_cart_form only when it was given no form,
\* always with create_cart=False, so a detail-page request leaves the cart
\* table alone; and the fallback from product_add_to_cart to
\* product_details calls handle_cart_form once in the whole request.
C10_Calls ==
    /\ \A i \in CallsTo("handle_cart_form") :
           calls[i].create_cart =>
               (IsAddToCart /\ request.method = "POST"
                  /\ calls[i].by = "product_add_to_cart")
    /\ \A i \in CallsToBy("handle_cart_form", "product_details") :
           ~calls[i].create_cart /\ IsDetails
    /\ IsDetails => Cardinality(CallsTo("handle_cart_form")) <= 1
    /\ (IsAddToCart /\ request.method = "POST" /\ ProductResolves
          /\ ~FormValid /\ ~request.is_ajax) =>
           Cardinality(CallsTo("handle_cart_form")) = 1

C10_OnlyAddToCartCreatesCart ==
    [][ C10_Calls' /\ (IsDetails' => carts' = carts) ]_vars

\* the fallback rendered the detail page with the form built once
C10_Witness ==
    /\ IsAddToCart /\ request.method = "POST" /\ ProductResolves
    /\ ~FormValid /\ ~request.is_ajax /\ ~StaleSlug
    /\ response.kind = "TemplateResponse"
    /\ response.form = <<SubmittedForm>>
    /\ Cardinality(CallsTo("handle_cart_form")) = 1
====
